---- MODULE Spec2Model ----
(***************************************************************************)
(* Model of main1.py of sports-trend-ranker: one run of score_items over a *)
(* batch of items, with the optional trend lookup of get_trend_slopes.     *)
(*                                                                         *)
(* Representation.                                                         *)
(*  - A text (title, url, entity, tracked term) is a sequence of           *)
(*    one-character strings, so that str.lower(), " ".join() and the       *)
(*    substring test `a in b` are computed character by character.         *)
(*  - Time is counted in whole hours: a timestamp or clock value t stands  *)
(*    for t * 3_600_000 ms, so hours_ago is the plain difference.          *)
(*  - A float is an exact rational [n |-> numerator, d |-> denominator]    *)
(*    with d > 0. ViralityScore, which the code rounds to 4 decimals, is   *)
(*    kept as an integer number of ten-thousandths; round() is round half  *)
(*    to even on the exact value (the binary rounding error of the float   *)
(*    sum, which can tip an exact tie, is not modelled). A trend slope is  *)
(*    kept in hundredths.                                                  *)
(*  - The wall clock may advance between two readings of now_ms(); reads   *)
(*    records the reading each item's Fresh was computed from.             *)
(***************************************************************************)
EXTENDS Integers, Sequences, FiniteSets, TLC

VARIABLES
    USE_TRENDS,    \* the module flag, fixed for the run
    items,         \* the batch passed to score_items
    feed,          \* what the trend service answers for each term in this run
    clock,         \* the wall clock time.time(), in hours
    pc,            \* position of the run inside score_items
    bounds,        \* [min_up, max_up, min_com, max_com]
    twelve_ms,     \* cutoff of the 12 hour window
    freq,          \* Counter: case-folded entity -> count
    trend_slopes,  \* dict: tracked term -> slope (hundredths)
    ti,            \* get_trend_slopes: index of the term the loop is at
    out,           \* the scored items, in input order
    reads,         \* the now_ms() value each scored item's Fresh was computed from
    ranked         \* the returned list

vars == << USE_TRENDS, items, feed, clock, pc, bounds, twelve_ms, freq,
           trend_slopes, ti, out, reads, ranked >>

----------------------------------------------------------------------------
(* Bounds of the model *)

\* longest batch
MaxItems == 2
\* how many hours the wall clock may advance during one run
MaxDrift == 1
\* the clock reading when the run starts (hours since the epoch)
StartClock == 48

(* Program constants *)

\* 12*3600*1000 ms
WindowHours == 12
\* Fresh decays to 0 over 24 hours
DayHours == 24
\* a series shorter than this gets slope 0.0
MinPoints == 3
\* round(score, 4): ten-thousandths
Scale == 10000
W_up == 3000
W_com == 2000
W_fresh == 1500
W_vel == 2000
W_cross == 1000
W_trend == 500

----------------------------------------------------------------------------
(* Texts *)

UpperChars == << "A","B","C","D","E","F","G","H","I","J","K","L","M",
                 "N","O","P","Q","R","S","T","U","V","W","X","Y","Z" >>
LowerChars == << "a","b","c","d","e","f","g","h","i","j","k","l","m",
                 "n","o","p","q","r","s","t","u","v","w","x","y","z" >>

\* one character of str.lower()
LowerChar(c) ==
    LET at == { i \in 1..Len(UpperChars) : UpperChars[i] = c }
    IN  IF at = {} THEN c ELSE LowerChars[CHOOSE i \in at : TRUE]

\* str.lower()
Lower(s) == [i \in 1..Len(s) |-> LowerChar(s[i])]

\* the set {e.lower() for e in ents}
LowerSet(ents) == { Lower(ents[i]) : i \in 1..Len(ents) }

RECURSIVE Join(_)
\* " ".join(ents)
Join(ents) ==
    IF Len(ents) = 0 THEN << >>
    ELSE IF Len(ents) = 1 THEN ents[1]
    ELSE ents[1] \o << " " >> \o Join(Tail(ents))

\* the substring test `a in b`
Contains(a, b) ==
    \E k \in 0..(Len(b) - Len(a)) :
        \A i \in 1..Len(a) : b[k + i] = a[i]

SPORT_TERMS == << << "N","F","L" >>, << "N","B","A" >>, << "U","F","C" >>,
                  << "B","o","x","i","n","g" >>, << "S","o","c","c","e","r" >> >>

----------------------------------------------------------------------------
(* Exact arithmetic standing for the floats *)

Rat(n, d) == [n |-> n, d |-> d]

RECURSIVE GCD(_, _)
GCD(a, b) == IF b = 0 THEN a ELSE GCD(b, a % b)

Abs(x) == IF x < 0 THEN -x ELSE x

\* the same rational in lowest terms
Reduce(r) ==
    LET g == GCD(Abs(r.n), r.d)
    IN  Rat(r.n \div g, r.d \div g)

RatAdd(a, b) == Reduce(Rat(a.n * b.d + b.n * a.d, a.d * b.d))
RatScale(k, a) == Reduce(Rat(k * a.n, a.d))
RatLe(a, b) == a.n * b.d <= b.n * a.d
RatEq(a, b) == a.n * b.d = b.n * a.d
RatMax(a, b) == IF RatLe(a, b) THEN b ELSE a
RatMin(a, b) == IF RatLe(a, b) THEN a ELSE b

\* round() of a non-negative exact value to the nearest integer, ties to even
RoundHalfEven(r) ==
    LET q == r.n \div r.d
        m == r.n % r.d
    IN  IF 2 * m < r.d THEN q
        ELSE IF 2 * m > r.d THEN q + 1
        ELSE IF q % 2 = 0 THEN q ELSE q + 1

\* min(...) and max(...) of a non-empty set of integers
MinOf(S) == CHOOSE x \in S : \A y \in S : x <= y
MaxOf(S) == CHOOSE x \in S : \A y \in S : x >= y

----------------------------------------------------------------------------
(* Scoring: the pure parts of score_items *)

\* normalize(val, lo, hi)
normalize(val, lo, hi) ==
    IF hi = lo THEN Rat(0, 1)
    ELSE RatMax(Rat(0, 1), RatMin(Rat(1, 1), Rat(val - lo, hi - lo)))

\* r = [i for i in items if i["source"]=="reddit"]
RedditOf(its) == { i \in 1..Len(its) : its[i].source = "reddit" }

\* EngagementBounds taken over the whole batch instead of the reddit items
EngagementBoundsAll(its) ==
    LET r == 1..Len(its)
    IN  [ min_up  |-> IF r = {} THEN 0 ELSE MinOf({ its[i].ups : i \in r }),
          max_up  |-> IF r = {} THEN 1 ELSE MaxOf({ its[i].ups : i \in r }),
          min_com |-> IF r = {} THEN 0 ELSE MinOf({ its[i].comments : i \in r }),
          max_com |-> IF r = {} THEN 1 ELSE MaxOf({ its[i].comments : i \in r }) ]

\* min_up, max_up, min_com, max_com with their defaults for an empty r
EngagementBounds(its) ==
    LET r == RedditOf(its)
    IN  [ min_up  |-> IF r = {} THEN 0 ELSE MinOf({ its[i].ups : i \in r }),
          max_up  |-> IF r = {} THEN 1 ELSE MaxOf({ its[i].ups : i \in r }),
          min_com |-> IF r = {} THEN 0 ELSE MinOf({ its[i].comments : i \in r }),
          max_com |-> IF r = {} THEN 1 ELSE MaxOf({ its[i].comments : i \in r }) ]

\* Counter lookup: a missing key reads as 0
FreqOf(f, k) == IF k \in DOMAIN f THEN f[k] ELSE 0

\* freq[k] += 1
Increment(f, k) ==
    IF k \in DOMAIN f THEN [f EXCEPT ![k] = @ + 1] ELSE (k :> 1) @@ f

RECURSIVE CountEntities(_, _)
\* for e in it.get("entities",[]): freq[e.lower()] += 1
CountEntities(f, ents) ==
    IF Len(ents) = 0 THEN f
    ELSE CountEntities(Increment(f, Lower(Head(ents))), Tail(ents))

\* InWindow with > for >=: an item exactly at the cutoff is left out
InWindowStrict(ts, cutoff) == ts > cutoff

\* the window test of the frequency loop
InWindow(ts, cutoff) == ts >= cutoff

RECURSIVE BuildFreq(_, _, _)
\* the frequency loop over the batch
BuildFreq(f, its, cutoff) ==
    IF Len(its) = 0 THEN f
    ELSE BuildFreq(IF InWindow(Head(its).ts, cutoff)
                   THEN CountEntities(f, Head(its).entities)
                   ELSE f,
                   Tail(its), cutoff)

\* max_freq = max(freq.values(), default=1)
MaxFreq(f) == IF DOMAIN f = {} THEN 1 ELSE MaxOf({ f[k] : k \in DOMAIN f })

RECURSIVE SumFreq(_, _)
\* v += freq[e.lower()] over ents
SumFreq(f, ents) ==
    IF Len(ents) = 0 THEN 0
    ELSE FreqOf(f, Lower(Head(ents))) + SumFreq(f, Tail(ents))

\* entity_velocity(ents)
entity_velocity(ents, f) ==
    IF Len(ents) = 0 THEN Rat(0, 1)
    ELSE Rat(SumFreq(f, ents), MaxFreq(f))

\* any(i for i in items if i["source"]==src and s.intersection(...))
HasSource(src, ents, its) ==
    \E i \in 1..Len(its) :
        /\ its[i].source = src
        /\ LowerSet(ents) \cap LowerSet(its[i].entities) # {}

\* cross_source with `or` for `and`
cross_source_either(ents, its) ==
    IF Len(ents) = 0 THEN 0
    ELSE IF HasSource("reddit", ents, its) \/ HasSource("news", ents, its)
         THEN 1 ELSE 0

\* cross_source(ents)
cross_source(ents, its) ==
    IF Len(ents) = 0 THEN 0
    ELSE IF HasSource("reddit", ents, its) /\ HasSource("news", ents, its)
         THEN 1 ELSE 0

\* trend_slopes.get(core, 0.0)
SlopeGet(slopes, core) == IF core \in DOMAIN slopes THEN slopes[core] ELSE 0

\* val = 0.0, the value the loop of trend_signal starts from
TrendStart == 0

RECURSIVE TrendLoop(_, _, _, _)
\* for core in SPORT_TERMS: if core.lower() in " ".join(ents).lower(): val = max(val, slope)
TrendLoop(val, terms, ents, slopes) ==
    IF Len(terms) = 0 THEN val
    ELSE LET core == Head(terms)
             hit  == Contains(Lower(core), Lower(Join(ents)))
             s    == SlopeGet(slopes, core)
         IN  TrendLoop(IF hit /\ s > val THEN s ELSE val, Tail(terms), ents, slopes)

\* trend_signal(ents): max(0.0, min(1.0, (val+1)/2)), val in hundredths
trend_signal(ents, slopes) ==
    LET val == TrendLoop(TrendStart, SPORT_TERMS, ents, slopes)
    IN  RatMax(Rat(0, 1), RatMin(Rat(1, 1), Rat(val + 100, 200)))

\* hours_ago(ts_ms) for the clock reading now
hours_ago(now, ts) == now - ts

\* Fresh = max(0.0, 1 - hours_ago(it["ts"])/24)
Freshness(now, ts) ==
    RatMax(Rat(0, 1), Rat(DayHours - hours_ago(now, ts), DayHours))

\* the weighted sum, in ten-thousandths, rounded: round(score, 4)
Composite(R_up, R_com, Fresh, NewsVel, Cross, Trend) ==
    RoundHalfEven(
        RatAdd(RatScale(W_up, R_up),
        RatAdd(RatScale(W_com, R_com),
        RatAdd(RatScale(W_fresh, Fresh),
        RatAdd(RatScale(W_vel, NewsVel),
        RatAdd(Rat(W_cross * Cross, 1),
               RatScale(W_trend, Trend)))))))

\* one pass of the scoring loop for item it, with now the clock reading of hours_ago
ScoreOne(it, its, b, f, slopes, useTrends, now) ==
    LET isR     == it.source = "reddit"
        R_up    == IF isR THEN normalize(it.ups, b.min_up, b.max_up) ELSE Rat(0, 1)
        R_com   == IF isR THEN normalize(it.comments, b.min_com, b.max_com) ELSE Rat(0, 1)
        Fresh   == Freshness(now, it.ts)
        NewsVel == entity_velocity(it.entities, f)
        Cross   == cross_source(it.entities, its)
        Trend   == IF useTrends THEN trend_signal(it.entities, slopes) ELSE Rat(0, 1)
    IN  [ source |-> it.source, title |-> it.title, url |-> it.url, ts |-> it.ts,
          ups |-> it.ups, comments |-> it.comments, entities |-> it.entities,
          R_up |-> R_up, R_com |-> R_com, Fresh |-> Fresh, NewsVel |-> NewsVel,
          Cross |-> Cross, TrendSlope |-> Trend,
          ViralityScore |-> Composite(R_up, R_com, Fresh, NewsVel, Cross, Trend) ]

\* key = it["url"] if it["url"] else it["title"].lower()
KeyOf(it) == IF it.url # << >> THEN it.url ELSE Lower(it.title)

\* Replaces with >= for >: the last of several equal scores is kept
ReplacesOnTie(new, kept) == new.ViralityScore >= kept.ViralityScore

\* whether a later item with the same key takes the place of the kept one
Replaces(new, kept) == new.ViralityScore > kept.ViralityScore

\* one pass of the dedupe loop; seen is the dict's values in key insertion order
SeenPut(seen, it) ==
    IF \E j \in 1..Len(seen) : KeyOf(seen[j]) = KeyOf(it)
    THEN LET j == CHOOSE j \in 1..Len(seen) : KeyOf(seen[j]) = KeyOf(it)
         IN  IF Replaces(it, seen[j]) THEN [seen EXCEPT ![j] = it] ELSE seen
    ELSE Append(seen, it)

RECURSIVE Dedupe(_, _)
\* the dedupe loop over out
Dedupe(seen, scored) ==
    IF Len(scored) = 0 THEN seen
    ELSE Dedupe(SeenPut(seen, Head(scored)), Tail(scored))

\* InsertDesc without reverse=True: ascending order
InsertAsc(x, s) ==
    LET k == Cardinality({ j \in 1..Len(s) : s[j].ViralityScore <= x.ViralityScore })
    IN  SubSeq(s, 1, k) \o << x >> \o SubSeq(s, k + 1, Len(s))

\* where sorted(..., reverse=True) puts x in an already sorted list: after every
\* element that does not rank below it (the sort is stable)
InsertDesc(x, s) ==
    LET k == Cardinality({ j \in 1..Len(s) : s[j].ViralityScore >= x.ViralityScore })
    IN  SubSeq(s, 1, k) \o << x >> \o SubSeq(s, k + 1, Len(s))

RECURSIVE SortDesc(_, _)
\* sorted(seen.values(), key=lambda x: x["ViralityScore"], reverse=True)
SortDesc(acc, s) ==
    IF Len(s) = 0 THEN acc
    ELSE SortDesc(InsertDesc(Head(s), acc), Tail(s))

----------------------------------------------------------------------------
(* The inputs of a run *)

UFC == << "U","F","C" >>
ufc == << "u","f","c" >>
NFL == << "N","F","L" >>
MLB == << "M","L","B" >>
NFLPA == << "N","F","L","P","A" >>

Item(src, title, url, ts, ups, com, ents) ==
    [ source |-> src, title |-> title, url |-> url, ts |-> ts,
      ups |-> ups, comments |-> com, entities |-> ents ]

\* every batch of at most MaxItems items of pool
Batches(pool) ==
    UNION { [1..n -> pool] : n \in 0..MaxItems }

\* answers of the trend service: the request raises, or a frame with a series y
Raises == [kind |-> "raises", y |-> << >>]
Frame(y) == [kind |-> "frame", y |-> y]

TermSet == { SPORT_TERMS[i] : i \in 1..Len(SPORT_TERMS) }

\* one run of the service showing each kind of answer
MixedFeed ==
    (SPORT_TERMS[1] :> Raises) @@ (SPORT_TERMS[2] :> Frame(<< >>)) @@
    (SPORT_TERMS[3] :> Frame(<< 60, 80, 20 >>)) @@
    (SPORT_TERMS[4] :> Frame(<< 10, 90 >>)) @@
    (SPORT_TERMS[5] :> Frame(<< 0, 50, 100 >>))

\* a run in which every tracked term is falling
FallingFeed ==
    [ t \in TermSet |-> IF t = SPORT_TERMS[1] THEN Frame(<< 100, 50, 0 >>)
                        ELSE Frame(<< 60, 80, 20 >>) ]

AllFeeds ==
    [ TermSet -> { Raises, Frame(<< >>), Frame(<< 10, 90 >>),
                   Frame(<< 60, 80, 20 >>) } ]

\* general batches: sources, ages around the 24 hour mark and in the future,
\* engagement, entity lists with one and two entities
GeneralPool ==
    { Item(src, << "A" >>, << "u" >>, ts, ups, ups \div 2, ents) :
        src \in { "reddit", "news" },
        ts \in { StartClock - 25, StartClock - 24, StartClock - 6,
                 StartClock, StartClock + 1 },
        ups \in { 0, 10 },
        ents \in { << >>, << UFC >>, << ufc, NFL >> } }

\* batches for deduplication and ranking: urls, titles and scores vary
RankPool ==
    { Item("reddit", title, url, StartClock - 1, ups, 0, << >>) :
        title \in { << "A" >>, << "a" >>, << "B" >> },
        url \in { << >>, << "a" >>, << "u" >> },
        ups \in { 0, 10 } }

\* batches for corroboration: sources, entity lists that share entities up to
\* case or not at all
CrossPool ==
    { Item(src, << "A" >>, << "u" >>, StartClock - 1, 0, 0, ents) :
        src \in { "reddit", "news" },
        ents \in { << >>, << UFC >>, << ufc, NFL >>, << MLB >> } }

\* batches for entity velocity: ages around the 12 hour cutoff, entity lists that
\* share entities up to case
EntityPool ==
    { Item("news", << "A" >>, << "u" >>, ts, 0, 0, ents) :
        ts \in { StartClock - 13, StartClock - 12, StartClock - 1 },
        ents \in { << >>, << UFC >>, << ufc, NFL >> } }

\* batches for the engagement signals
EngagePool ==
    { Item(src, << "A" >>, << "u" >>, StartClock - 1, ups, com, << >>) :
        src \in { "reddit", "news" },
        ups \in { 0, 5, 10 },
        com \in { 0, 4 } }

\* batches for the trend signal: entity texts that contain tracked terms
TrendPool ==
    { Item("news", << "A" >>, << "u" >>, StartClock - 1, 0, 0, << ufc, NFLPA >>) }

----------------------------------------------------------------------------
(* The run *)

InitOver(pool, feeds) ==
    /\ USE_TRENDS \in BOOLEAN
    /\ items \in Batches(pool)
    \* with the feature off the service is never asked: one feed stands for all
    /\ feed \in (IF USE_TRENDS THEN feeds ELSE { MixedFeed })
    /\ clock = StartClock
    /\ pc = "start"
    /\ bounds = EngagementBounds(<< >>)
    /\ twelve_ms = 0
    /\ freq = << >>
    /\ trend_slopes = << >>
    /\ ti = 1
    /\ out = << >>
    /\ reads = << >>
    /\ ranked = << >>

\* now_ms(): the values a reading of the wall clock may return
NowMs == clock..(StartClock + MaxDrift)

\* score_items up to the frequency map: engagement bounds, cutoff, freq
Start ==
    /\ pc = "start"
    /\ \E now \in NowMs :
        /\ clock' = now
        /\ twelve_ms' = now - WindowHours
        /\ freq' = BuildFreq(<< >>, items, now - WindowHours)
    /\ bounds' = EngagementBounds(items)
    /\ pc' = "trends"
    /\ UNCHANGED << USE_TRENDS, items, feed, trend_slopes, ti, out, reads, ranked >>

\* get_trend_slopes with the feature off: return {}
TrendsDisabled ==
    /\ pc = "trends"
    /\ ~USE_TRENDS
    /\ trend_slopes' = << >>
    /\ pc' = "score"
    /\ UNCHANGED << USE_TRENDS, items, feed, clock, bounds, twelve_ms, freq,
                    ti, out, reads, ranked >>

\* the loop of get_trend_slopes moves to the next term, or returns after the last
NextTerm(slope) ==
    /\ trend_slopes' = (SPORT_TERMS[ti] :> slope) @@ trend_slopes
    /\ ti' = ti + 1
    /\ pc' = IF ti = Len(SPORT_TERMS) THEN "score" ELSE "trends"
    /\ UNCHANGED << USE_TRENDS, items, feed, clock, bounds, twelve_ms, freq,
                    out, reads, ranked >>

AtTerm == pc = "trends" /\ USE_TRENDS /\ ti <= Len(SPORT_TERMS)

\* FetchRaises without the try/except: the exception ends the run
FetchRaisesAborts ==
    /\ AtTerm
    /\ feed[SPORT_TERMS[ti]].kind = "raises"
    /\ pc' = "done"
    /\ UNCHANGED << USE_TRENDS, items, feed, clock, bounds, twelve_ms, freq,
                    trend_slopes, ti, out, reads, ranked >>

\* the request for the term raises: except Exception: slopes[term]=0.0
FetchRaises ==
    /\ AtTerm
    /\ feed[SPORT_TERMS[ti]].kind = "raises"
    /\ NextTerm(0)

\* if df.empty: slopes[term]=0.0; continue
FetchEmpty ==
    /\ AtTerm
    /\ feed[SPORT_TERMS[ti]].kind = "frame"
    /\ Len(feed[SPORT_TERMS[ti]].y) = 0
    /\ NextTerm(0)

\* if len(y)<3: slopes[term]=0.0; continue
FetchShort ==
    /\ AtTerm
    /\ feed[SPORT_TERMS[ti]].kind = "frame"
    /\ Len(feed[SPORT_TERMS[ti]].y) # 0
    /\ Len(feed[SPORT_TERMS[ti]].y) < MinPoints
    /\ NextTerm(0)

\* slope = (y[-1]-y[0])/100.0; slopes[term]=slope
FetchSlope ==
    /\ AtTerm
    /\ feed[SPORT_TERMS[ti]].kind = "frame"
    /\ Len(feed[SPORT_TERMS[ti]].y) >= MinPoints
    /\ LET y == feed[SPORT_TERMS[ti]].y
       IN  NextTerm(y[Len(y)] - y[1])

\* one pass of the scoring loop; hours_ago reads the clock again
ScoreItem ==
    /\ pc = "score"
    /\ Len(out) < Len(items)
    /\ \E now \in NowMs :
        /\ clock' = now
        /\ out' = Append(out, ScoreOne(items[Len(out) + 1], items, bounds, freq,
                                       trend_slopes, USE_TRENDS, now))
        /\ reads' = Append(reads, now)
    /\ UNCHANGED << USE_TRENDS, items, feed, pc, bounds, twelve_ms, freq,
                    trend_slopes, ti, ranked >>

\* dedupe by URL/title, keep highest; sort; return
DedupeAndRank ==
    /\ pc = "score"
    /\ Len(out) = Len(items)
    /\ ranked' = SortDesc(<< >>, Dedupe(<< >>, out))
    /\ pc' = "done"
    /\ UNCHANGED << USE_TRENDS, items, feed, clock, bounds, twelve_ms, freq,
                    trend_slopes, ti, out, reads >>

Next ==
    \/ Start
    \/ TrendsDisabled
    \/ FetchRaises
    \/ FetchEmpty
    \/ FetchShort
    \/ FetchSlope
    \/ ScoreItem
    \/ DedupeAndRank

Init == InitOver(GeneralPool, { MixedFeed, FallingFeed })
Spec == Init /\ [][Next]_vars

InitRank == InitOver(RankPool, { MixedFeed })
SpecRank == InitRank /\ [][Next]_vars

InitCross == InitOver(CrossPool, { MixedFeed })
SpecCross == InitCross /\ [][Next]_vars

InitEntities == InitOver(EntityPool, { MixedFeed })
SpecEntities == InitEntities /\ [][Next]_vars

InitEngage == InitOver(EngagePool, { MixedFeed })
SpecEngage == InitEngage /\ [][Next]_vars

InitTrends == InitOver(TrendPool, AllFeeds)
SpecTrends == InitTrends /\ [][Next]_vars

----------------------------------------------------------------------------
(* Properties *)

Done == pc = "done"

\* the identity key as the specification words it
IdentityKey(it) == IF Len(it.url) = 0 THEN Lower(it.title) ELSE it.url

SeqSet(s) == { s[i] : i \in 1..Len(s) }

\* C1: the returned sequence is ordered by ViralityScore descending (each item's
\* score is at least the next one's) and holds exactly the items that survived
\* deduplication, each once: none added, none lost.
C1_RankedSortedSurvivors ==
    Done =>
        /\ \A i \in 1..(Len(ranked) - 1) :
               ranked[i].ViralityScore >= ranked[i + 1].ViralityScore
        /\ SeqSet(ranked) = SeqSet(Dedupe(<< >>, out))
        /\ Len(ranked) = Len(Dedupe(<< >>, out))
        /\ Cardinality(SeqSet(ranked)) = Len(ranked)

\* a run whose two survivors are returned in the opposite of their input order
C1_Witness ==
    /\ Done
    /\ Len(ranked) = 2
    /\ ranked[1] = out[2]
    /\ ranked[1].ViralityScore > ranked[2].ViralityScore

\* the scored items that share the identity key k
Group(k) == { j \in 1..Len(out) : IdentityKey(out[j]) = k }

\* the first, in input order, of the best scored items of the group of k
FirstBest(k) ==
    MinOf({ j \in Group(k) :
              \A h \in Group(k) : out[h].ViralityScore <= out[j].ViralityScore })

\* C2: for every identity key of the batch (the url, or the lower-cased title when
\* the url is empty) the output holds exactly one item with that key; it has the
\* highest ViralityScore of the items with that key, and of several with that
\* highest score it is the first in input order.
C2_DedupKeepsFirstBest ==
    Done =>
        \A i \in 1..Len(out) :
            LET k    == IdentityKey(out[i])
                kept == { j \in 1..Len(ranked) : IdentityKey(ranked[j]) = k }
            IN  /\ Cardinality(kept) = 1
                /\ \A j \in kept : ranked[j] = out[FirstBest(k)]

\* two different items with one key (a url and a lower-cased title that coincide)
\* and equal scores: only the first is returned
C2_Witness ==
    /\ Done
    /\ Len(out) = 2
    /\ Len(ranked) = 1
    /\ out[1] # out[2]
    /\ Len(out[1].url) = 0
    /\ Len(out[2].url) # 0
    /\ out[1].ViralityScore = out[2].ViralityScore
    /\ ranked[1] = out[1]

\* whether entity lists a and b share an entity up to case
SharesEntity(a, b) ==
    \E x \in 1..Len(a), y \in 1..Len(b) : Lower(a[x]) = Lower(b[y])

\* whether the batch corroborates the entity list ents
Corroborated(ents) ==
    /\ Len(ents) > 0
    /\ \E j \in 1..Len(items) :
           items[j].source = "reddit" /\ SharesEntity(ents, items[j].entities)
    /\ \E j \in 1..Len(items) :
           items[j].source = "news" /\ SharesEntity(ents, items[j].entities)

\* C4: the Cross component of every scored item is 1 if and only if its entity list
\* is non-empty and the batch holds a "reddit" item and a "news" item that each
\* share a case-folded entity with it; otherwise it is 0. So a reddit and a news
\* item that both contain "UFC" both get 1, and when only reddit items contain
\* "UFC" they get 0.
C4_CrossIffBothSources ==
    \A i \in 1..Len(out) :
        /\ out[i].Cross \in { 0, 1 }
        /\ out[i].Cross = 1 <=> Corroborated(items[i].entities)
        /\ ( /\ LowerSet(items[i].entities) = { ufc }
             /\ \A j \in 1..Len(items) :
                    ufc \in LowerSet(items[j].entities) => items[j].source = "reddit" )
           => out[i].Cross = 0

\* a reddit item and a news item whose entities agree only up to case: both get 1
C4_Witness ==
    /\ Done
    /\ Len(out) = 2
    /\ out[1].source = "reddit" /\ out[1].entities = << UFC >>
    /\ out[2].source = "news" /\ out[2].entities = << ufc, NFL >>
    /\ out[1].Cross = 1
    /\ out[2].Cross = 1

\* the (item, entity) pairs of the batch that fall in the window and fold to e
Occurrences(e) ==
    { p \in (1..Len(items)) \X (1..MaxOf({ 0 } \cup { Len(items[i].entities) : i \in 1..Len(items) })) :
        /\ p[2] <= Len(items[p[1]].entities)
        /\ items[p[1]].ts >= twelve_ms
        /\ Lower(items[p[1]].entities[p[2]]) = e }

\* the case-folded entities of the whole batch
FoldedEntities == UNION { LowerSet(items[i].entities) : i \in 1..Len(items) }

\* the largest count of the window, or 1 when nothing was counted
MaxFrequency ==
    IF \A e \in FoldedEntities : Occurrences(e) = {} THEN 1
    ELSE MaxOf({ Cardinality(Occurrences(e)) : e \in FoldedEntities })

RECURSIVE SumCounts(_, _)
\* the sum of the counts of the first n entities of ents
SumCounts(ents, n) ==
    IF n = 0 THEN 0
    ELSE Cardinality(Occurrences(Lower(ents[n]))) + SumCounts(ents, n - 1)

\* C5: the cutoff is 12 hours before the clock reading; the frequency map counts,
\* per case-folded entity, one occurrence for each (item, entity) pair of the items
\* at or after the cutoff and nothing for older items; and for every item, in the
\* window or not, NewsVel is the sum of the counts of its entities divided by the
\* largest count (1 when the map is empty), and 0.0 when it has no entities.
C5_EntityVelocity ==
    /\ pc = "trends" => twelve_ms = clock - 12
    /\ pc # "start" =>
        /\ \A e \in FoldedEntities : FreqOf(freq, e) = Cardinality(Occurrences(e))
        /\ DOMAIN freq = { e \in FoldedEntities : Occurrences(e) # {} }
    /\ \A i \in 1..Len(out) :
        LET ents == items[i].entities
        IN  /\ out[i].NewsVel.d > 0
            /\ out[i].NewsVel.n * MaxFrequency
                   = SumCounts(ents, Len(ents)) * out[i].NewsVel.d
            /\ Len(ents) = 0 => out[i].NewsVel.n = 0

\* an item older than the cutoff is left out of the counts, an item exactly at the
\* cutoff is counted, and the old item gets its NewsVel from the counted one
C5_Witness ==
    /\ Done
    /\ Len(out) = 2
    /\ items[1].ts < twelve_ms
    /\ items[2].ts = twelve_ms
    /\ items[1].entities = << ufc, NFL >>
    /\ items[2].entities = << UFC >>
    /\ FreqOf(freq, ufc) = 1
    /\ out[1].NewsVel = Rat(1, 1)
    /\ out[2].NewsVel = Rat(1, 1)

\* the engagement values of the reddit items of the batch
RedditValues(field) ==
    { items[j][field] : j \in { h \in 1..Len(items) : items[h].source = "reddit" } }

\* whether the component r is the min-max scaling of v over the values S
IsMinMax(r, v, S) ==
    LET lo == MinOf(S)
        hi == MaxOf(S)
    IN  /\ r.d > 0
        /\ 0 <= r.n /\ r.n <= r.d
        /\ IF lo = hi THEN r.n = 0
           ELSE r.n * (hi - lo) = (v - lo) * r.d

\* C8: for every reddit item R_up (R_com) is the min-max scaling (v - lo)/(hi - lo)
\* of its ups (comments), within [0,1], with lo and hi the least and greatest value
\* over the reddit items of the batch, and 0.0 whenever lo = hi; for every news
\* item both components are 0.0.
C8_EngagementMinMax ==
    \A i \in 1..Len(out) :
        IF items[i].source = "reddit"
        THEN /\ IsMinMax(out[i].R_up, items[i].ups, RedditValues("ups"))
             /\ IsMinMax(out[i].R_com, items[i].comments, RedditValues("comments"))
        ELSE out[i].R_up.n = 0 /\ out[i].R_com.n = 0

\* two reddit items with different upvotes and equal comments: the upvotes are
\* scaled to 0 and 1, the degenerate comments range gives 0
C8_Witness ==
    /\ Done
    /\ Len(out) = 2
    /\ out[1].source = "reddit" /\ out[2].source = "reddit"
    /\ out[1].ups = 5 /\ out[2].ups = 10
    /\ out[1].comments = 4 /\ out[2].comments = 4
    /\ out[1].R_up.n = 0 /\ RatEq(out[2].R_up, Rat(1, 1))
    /\ out[2].R_com.n = 0

\* the tracked terms the loop of get_trend_slopes has passed
Processed == { SPORT_TERMS[i] : i \in 1..(ti - 1) }

\* whether the answer for term t gives no usable series
NoSeries(t) == feed[t].kind = "raises" \/ Len(feed[t].y) < 3

SlopesRecorded ==
    USE_TRENDS =>
        /\ AtTerm => ENABLED (FetchRaises \/ FetchEmpty \/ FetchShort \/ FetchSlope)
        /\ DOMAIN trend_slopes = Processed
        /\ \A t \in Processed :
               trend_slopes[t] = IF NoSeries(t) THEN 0
                                 ELSE feed[t].y[Len(feed[t].y)] - feed[t].y[1]
        /\ pc \in { "score", "done" } => Processed = TermSet

SlopesKept ==
    \A t \in DOMAIN trend_slopes :
        t \in DOMAIN trend_slopes' /\ trend_slopes'[t] = trend_slopes[t]

\* C9: with the trend feature on, a term whose request fails does not end the run:
\* its slope is recorded as 0.0, the slopes recorded for earlier terms stay as they
\* are, every later term is still processed, and the function ends with a slope for
\* every tracked term; a term with an empty series or fewer than 3 points gets 0.0.
C9_TermFailureIsolated == []SlopesRecorded /\ [][SlopesKept]_vars

\* a run in which the second term's request failed between two terms with a slope
C9_Witness ==
    /\ Done
    /\ USE_TRENDS
    /\ feed[SPORT_TERMS[2]].kind = "raises"
    /\ trend_slopes[SPORT_TERMS[1]] = -40
    /\ trend_slopes[SPORT_TERMS[2]] = 0
    /\ trend_slopes[SPORT_TERMS[3]] = -40
    /\ feed[SPORT_TERMS[4]].y = << 10, 90 >>
    /\ trend_slopes[SPORT_TERMS[4]] = 0

\* C3: the ViralityScore of every scored item lies in [0,1].
C3_ScoreInUnitInterval ==
    \A i \in 1..Len(out) :
        0 <= out[i].ViralityScore /\ out[i].ViralityScore <= Scale

\* the tracked terms found in the joined, case-folded entity text
Matching(ents) ==
    { t \in TermSet : Contains(Lower(t), Lower(Join(ents))) }

\* the largest slope of the matching terms, 0 when none matches (hundredths)
MaxSlope(ents) ==
    IF Matching(ents) = {} THEN 0
    ELSE MaxOf({ trend_slopes[t] : t \in Matching(ents) })

\* C6: with the trend feature on, the trend signal of every scored item is
\* clamp((s+1)/2, 0, 1) with s the largest slope of the matching tracked terms, and
\* s = 0.0 only when no term matches: all matching slopes negative gives a result
\* below 0.5.
C6_TrendIsMaxOfMatching ==
    USE_TRENDS =>
        \A i \in 1..Len(out) :
            LET s == MaxSlope(items[i].entities)
                c == IF s < -100 THEN -100 ELSE IF s > 100 THEN 100 ELSE s
            IN  RatEq(out[i].TrendSlope, Rat(c + 100, 200))

\* C7: the Fresh component of every scored item lies in [0,1], whatever its
\* timestamp (one later than the clock reading included); it is 1 when the
\* timestamp equals the reading and 0 when it is 24 hours or more before it.
C7_FreshInUnitInterval ==
    \A i \in 1..Len(out) :
        /\ RatLe(Rat(0, 1), out[i].Fresh)
        /\ RatLe(out[i].Fresh, Rat(1, 1))
        /\ items[i].ts = reads[i] => RatEq(out[i].Fresh, Rat(1, 1))
        /\ reads[i] - items[i].ts >= 24 => out[i].Fresh.n = 0

\* C10: one run scores the whole batch against one value of now: two items with
\* equal timestamps get equal Fresh components, and an item counted inside the
\* 12 hour window has an age of at most 12 hours in its Fresh component.
C10_SingleNow ==
    /\ \A i, j \in 1..Len(out) :
           items[i].ts = items[j].ts => RatEq(out[i].Fresh, out[j].Fresh)
    /\ \A i \in 1..Len(out) :
           items[i].ts >= twelve_ms => RatLe(Rat(1, 2), out[i].Fresh)

====
